---- MODULE Spec2Model ----
(***************************************************************************)
(* A model of horde_sdk's GenericHordeAPIClient (generic_client.py): the   *)
(* request marshaller (_validate_and_prepare_request), the ten verb        *)
(* handlers (get .. async_delete) behind submit_request and                *)
(* async_submit_request, the response resolver (_after_request_handling)   *)
(* and the HordeRequestHandler context manager.                            *)
(*                                                                         *)
(* Python strings that the code takes apart (endpoint templates, path      *)
(* values, field names) are sequences of one-character strings, so that    *)
(* str.format_map and the trailing-underscore strip are computed.          *)
(***************************************************************************)
EXTENDS Integers, Sequences, FiniteSets, TLC

\* ------------------------------------------------------------------ bounds

\* The largest number of fields a request class of the model declares.
MaxFields == 3

\* ----------------------------------------------------------------- strings

\* Python's None as a field value (no one-character sequence equals it).
None == <<"None">>

apikey == <<"a", "p", "i", "k", "e", "y">>
id_ == <<"i", "d", "_">>
wid == <<"w", "i", "d">>
type == <<"t", "y", "p", "e">>
from_ == <<"f", "r", "o", "m", "_">>
prompt == <<"p", "r", "o", "m", "p", "t">>
models == <<"m", "o", "d", "e", "l", "s">>
accept == <<"a", "c", "c", "e", "p", "t">>

\* The order in which a request's __dict__ lists the fields it declares.
FieldOrder == <<apikey, id_, wid, type, from_, prompt, models, accept>>

FieldNames == {FieldOrder[i] : i \in 1..Len(FieldOrder)}

\* The member maps (python name, wire name) of the client's three registries,
\* in member order. Nothing keeps a name out of two registries: wid is a path
\* and a header member, accept a header and a query member, and from_, which a
\* request class can list as an extra header field, is a query member.
HeaderFields ==
    << <<apikey, <<"a", "p", "i", "k", "e", "y">> >>,
       <<wid, <<"w", "i", "d">> >>,
       <<accept, <<"a", "c", "c", "e", "p", "t">> >> >>

PathFields == << <<id_, <<"i", "d">> >>, <<wid, <<"w", "i", "d">> >> >>

QueryFields ==
    << <<type, <<"t", "y", "p", "e">> >>,
       <<accept, <<"a", "c", "c", "e", "p", "t">> >>,
       <<from_, <<"f", "r", "o", "m">> >> >>

\* Endpoint templates (get_endpoint_url()).
EP_async == <<"/", "a">>
EP_status == <<"/", "s", "/", "{", "i", "d", "}">>
EP_worker == <<"/", "s", "/", "{", "i", "d", "}", "/", "{", "w", "i", "d", "}">>

Endpoints == {EP_async, EP_status, EP_worker}

\* Values a path field can hold.
PathValues == {<<"1">>, <<"{", "w", "i", "d", "}">>}

\* The value of every other populated field.
SomeValue == <<"v">>

\* --------------------------------------------------------------- requests

HTTPMethods == {"GET", "POST", "PUT", "PATCH", "DELETE"}

ResponseTypes ==
    {"ImageGenerateAsyncResponse", "ImageGenerateCheckResponse", "ImageGenerateStatusResponse"}

\* --------------------------------------------------------------- str.format

\* The index of the first "}" of s after position i, or 0.
CloseIdx(s, i) ==
    LET js == {j \in (i + 1)..Len(s) : s[j] = "}"}
    IN IF js = {} THEN 0 ELSE CHOOSE j \in js : \A k \in js : j <= k

FormatOk(s) == [ok |-> TRUE, s |-> s, err |-> "none"]

FormatErr(e) == [ok |-> FALSE, s |-> <<>>, err |-> e]

RECURSIVE FormatFrom(_, _, _, _, _)
\* str.format_map({key: val}) from position i of s on, out being the text so far.
FormatFrom(s, i, key, val, out) ==
    IF i > Len(s) THEN FormatOk(out)
    ELSE IF s[i] = "{" THEN
        IF i = Len(s) THEN FormatErr("ValueError")
        ELSE IF s[i + 1] = "{" THEN FormatFrom(s, i + 2, key, val, Append(out, "{"))
        ELSE LET j == CloseIdx(s, i)
                 name == SubSeq(s, i + 1, j - 1)
             IN IF j = 0 THEN FormatErr("ValueError")
                ELSE IF name = <<>> THEN FormatErr("ValueError")
                ELSE IF \E k \in 1..Len(name) : name[k] = "{" THEN FormatErr("ValueError")
                ELSE IF name = key THEN FormatFrom(s, j + 1, key, val, out \o val)
                ELSE FormatErr("KeyError")
    ELSE IF s[i] = "}" THEN
        IF i < Len(s) /\ s[i + 1] = "}" THEN FormatFrom(s, i + 2, key, val, Append(out, "}"))
        ELSE FormatErr("ValueError")
    ELSE FormatFrom(s, i + 1, key, val, Append(out, s[i]))

FormatMap(s, key, val) == FormatFrom(s, 1, key, val, <<>>)

\* ----------------------------------------------------------- request model

\* What a declared field of a request holds: its value, and whether the caller
\* set it explicitly (pydantic's model_fields_set) or it is the default.
FieldOptions(f) ==
    IF f = apikey THEN {[value |-> None, is_set |-> FALSE], [value |-> <<"0">>, is_set |-> TRUE]}
    ELSE IF f = id_ THEN
        {[value |-> None, is_set |-> FALSE]} \cup {[value |-> v, is_set |-> TRUE] : v \in PathValues}
    ELSE IF f = wid THEN {[value |-> None, is_set |-> FALSE], [value |-> <<"2">>, is_set |-> TRUE]}
    ELSE IF f = type THEN
        {[value |-> SomeValue, is_set |-> TRUE], [value |-> SomeValue, is_set |-> FALSE]}
    ELSE IF f = prompt THEN
        {[value |-> None, is_set |-> FALSE], [value |-> SomeValue, is_set |-> FALSE],
         [value |-> SomeValue, is_set |-> TRUE]}
    ELSE {[value |-> SomeValue, is_set |-> TRUE]}

AllOptions == UNION {FieldOptions(f) : f \in FieldNames}

\* The field assignments of the request classes of the model.
FieldChoices ==
    UNION {{c \in [D -> AllOptions] : \A f \in D : c[f] \in FieldOptions(f)} :
           D \in {D \in SUBSET FieldNames : Cardinality(D) <= MaxFields}}

\* get_header_fields(): the class lists from_ as an extra header field, or the
\* override was forgotten.
HeaderFieldChoices(c) == IF from_ \in DOMAIN c THEN {<<>>, <<from_>>} ELSE {<<>>}

\* get_success_response_type() of the class behind an endpoint.
SuccessTypeOf(endpoint) ==
    IF endpoint = EP_async THEN "ImageGenerateAsyncResponse" ELSE "ImageGenerateStatusResponse"

\* The shared field groups a recovery request type can be a subclass of.
Groups == {"BaseRequestAuthenticated", "BaseRequestUserSpecific", "BaseRequestWorkerDriven"}

BaseRequest(method, endpoint, c, hdr, rec, rectype) ==
    [method |-> method,
     endpoint |-> endpoint,
     fields |-> [f \in DOMAIN c |-> c[f].value],
     fields_set |-> {f \in DOMAIN c : c[f].is_set},
     header_fields |-> hdr,
     success_type |-> SuccessTypeOf(endpoint),
     recovery_enabled |-> rec,
     recovery_type |-> rectype]

\* The requests a caller submits.
Requests ==
    {BaseRequest(m, e, c[1], c[2], FALSE, {}) :
        m \in HTTPMethods, e \in Endpoints,
        c \in UNION {{<<fc, h>> : h \in HeaderFieldChoices(fc)} : fc \in FieldChoices}}

hasattr(api_request, name) == name \in DOMAIN api_request.fields

getattr(api_request, name) == api_request.fields[name]

\* ------------------------------------------- _validate_and_prepare_request

\* The (python name, wire name) members whose field the request has, non-None.
get_specified_data_keys(data_keys, api_request) ==
    SelectSeq(data_keys,
              LAMBDA m : hasattr(api_request, m[1]) /\ getattr(api_request, m[1]) # None)

Keys(members) == {members[i][1] : i \in 1..Len(members)}

RECURSIVE SubstitutePaths(_, _, _, _)
\* The loop over specified_paths: one format_map per specified path field, each
\* on the result of the one before; an exception ends the loop.
SubstitutePaths(endpoint_url, specified_paths, api_request, i) ==
    IF i > Len(specified_paths) THEN FormatOk(endpoint_url)
    ELSE LET r == FormatMap(endpoint_url, specified_paths[i][2],
                            getattr(api_request, specified_paths[i][1]))
         IN IF r.ok THEN SubstitutePaths(r.s, specified_paths, api_request, i + 1) ELSE r

InSeq(x, seq) == \E i \in 1..Len(seq) : seq[i] = x

\* Remove the trailing underscore of a python name, if it has one.
ApiName(request_key) ==
    IF Len(request_key) > 0 /\ request_key[Len(request_key)] = "_"
    THEN SubSeq(request_key, 1, Len(request_key) - 1)
    ELSE request_key

\* The keys of request.__dict__, in declaration order.
DictKeys(api_request) == SelectSeq(FieldOrder, LAMBDA k : hasattr(api_request, k))

Put(dict, k, v) == [x \in DOMAIN dict \cup {k} |-> IF x = k THEN v ELSE dict[x]]

EmptyDict == [x \in {} |-> None]

RECURSIVE ClassifyFields_QueryFirst(_, _, _, _, _, _)
\* Mutant of ClassifyFields: the query registry is looked up before the headers.
ClassifyFields_QueryFirst(api_request, keys, i, specified_paths, specified_queries, acc) ==
    IF i > Len(keys) THEN acc
    ELSE LET request_key == keys[i]
             request_value == getattr(api_request, request_key)
             next ==
                 IF request_key \in Keys(specified_paths) THEN acc
                 ELSE IF request_key \in Keys(specified_queries) THEN
                     [acc EXCEPT !.request_queries_dict = Put(@, request_key, request_value)]
                 ELSE IF request_key \in DOMAIN acc.specified_headers THEN
                     [acc EXCEPT !.request_headers_dict = Put(@, request_key, request_value)]
                 ELSE IF InSeq(request_key, api_request.header_fields) THEN
                     [acc EXCEPT
                         !.specified_headers = Put(@, request_key, ApiName(request_key)),
                         !.request_headers_dict = Put(@, request_key, request_value)]
                 ELSE [acc EXCEPT !.request_params_dict = Put(@, request_key, request_value)]
         IN ClassifyFields_QueryFirst(api_request, keys, i + 1, specified_paths,
                                      specified_queries, next)

RECURSIVE ClassifyFields(_, _, _, _, _, _)
\* The loop over request.__dict__: acc holds specified_headers (python name ->
\* wire name) and the three dictionaries being filled.
ClassifyFields(api_request, keys, i, specified_paths, specified_queries, acc) ==
    IF i > Len(keys) THEN acc
    ELSE LET request_key == keys[i]
             request_value == getattr(api_request, request_key)
             next ==
                 IF request_key \in Keys(specified_paths) THEN acc
                 ELSE IF request_key \in DOMAIN acc.specified_headers THEN
                     [acc EXCEPT !.request_headers_dict = Put(@, request_key, request_value)]
                 ELSE IF InSeq(request_key, api_request.header_fields) THEN
                     [acc EXCEPT
                         !.specified_headers = Put(@, request_key, ApiName(request_key)),
                         !.request_headers_dict = Put(@, request_key, request_value)]
                 ELSE IF request_key \in Keys(specified_queries) THEN
                     [acc EXCEPT !.request_queries_dict = Put(@, request_key, request_value)]
                 ELSE [acc EXCEPT !.request_params_dict = Put(@, request_key, request_value)]
         IN ClassifyFields(api_request, keys, i + 1, specified_paths, specified_queries, next)

\* model_dump(exclude_none=True, exclude_unset=True, exclude=exclude).
model_dump(api_request, exclude) ==
    LET kept == {k \in DOMAIN api_request.fields :
                    /\ k \in api_request.fields_set
                    /\ api_request.fields[k] # None
                    /\ k \notin exclude}
    IN [k \in kept |-> api_request.fields[k]]

\* request_body: None, or a non-empty dictionary.
NoBody == [is_none |-> TRUE, dict |-> EmptyDict]

Body(d) == [is_none |-> FALSE, dict |-> d]

NormaliseBody(d) == IF DOMAIN d = {} THEN NoBody ELSE Body(d)

\* The result of a call that raised instead of returning a _ParsedRequest.
NoParsedRequest ==
    [endpoint_no_query |-> <<>>, request_headers |-> EmptyDict, request_queries |-> EmptyDict,
     request_params |-> EmptyDict, request_body |-> NoBody]

\* Mutant of AllFieldsToExcludeFromBody: the query fields are left in the body.
AllFieldsToExcludeFromBody_NoQueries(specified_headers, specified_paths, specified_queries, extra_header_keys) ==
    specified_headers \cup specified_paths \cup extra_header_keys

\* Mutant of AllFieldsToExcludeFromBody: the header fields are left in the body.
AllFieldsToExcludeFromBody_NoHeaders(specified_headers, specified_paths, specified_queries, extra_header_keys) ==
    specified_paths \cup specified_queries \cup extra_header_keys

\* set(specified_headers + specified_paths + specified_queries + extra_header_keys)
AllFieldsToExcludeFromBody(specified_headers, specified_paths, specified_queries, extra_header_keys) ==
    specified_headers \cup specified_paths \cup specified_queries \cup extra_header_keys

ValidateAndPrepareRequest(self, api_request) ==
    LET specified_headers == get_specified_data_keys(self.header_data_keys, api_request)
        specified_paths == get_specified_data_keys(self.path_data_keys, api_request)
        specified_queries == get_specified_data_keys(self.query_data_keys, api_request)
        url == SubstitutePaths(api_request.endpoint, specified_paths, api_request, 1)
        acc == ClassifyFields(api_request, DictKeys(api_request), 1, specified_paths,
                   specified_queries,
                   [specified_headers |->
                        [k \in Keys(specified_headers) |->
                            (CHOOSE m \in {specified_headers[i] : i \in 1..Len(specified_headers)} :
                                m[1] = k)[2]],
                    request_headers_dict |-> EmptyDict,
                    request_queries_dict |-> EmptyDict,
                    request_params_dict |-> EmptyDict])
        all_fields_to_exclude_from_body ==
            AllFieldsToExcludeFromBody(
                DOMAIN acc.specified_headers, Keys(specified_paths), Keys(specified_queries),
                {api_request.header_fields[i] : i \in 1..Len(api_request.header_fields)})
        request_body_data_dict == model_dump(api_request, all_fields_to_exclude_from_body)
    IN IF ~url.ok THEN [ok |-> FALSE, err |-> url.err, parsed |-> NoParsedRequest]
       ELSE [ok |-> TRUE, err |-> "none",
             parsed |-> [endpoint_no_query |-> url.s,
                         request_headers |-> acc.request_headers_dict,
                         request_queries |-> acc.request_queries_dict,
                         request_params |-> acc.request_params_dict,
                         request_body |-> NormaliseBody(request_body_data_dict)]]

\* ---------------------------------------------------------------- responses

\* JSON bodies: an object (keys to strings), an array of JSON values, a string.
EmptyObject == [k \in {} |-> ""]

JsonObject(f) == [kind |-> "object", obj |-> f, arr |-> <<>>, str |-> ""]

JsonString(x) == [kind |-> "string", obj |-> EmptyObject, arr |-> <<>>, str |-> x]

JsonArray(a) == [kind |-> "array", obj |-> EmptyObject, arr |-> a, str |-> ""]

Bodies ==
    {JsonObject([k \in {"message"} |-> "invalid apikey"]),
     JsonObject([k \in {"message", "code"} |-> IF k = "message" THEN "x" ELSE "y"]),
     JsonObject([k \in {"code"} |-> "y"]),
     JsonObject([k \in {"id"} |-> "j1"]),
     JsonObject([k \in {"done", "id"} |-> IF k = "done" THEN "true" ELSE "j1"]),
     JsonArray(<<JsonString("message")>>),
     JsonArray(<<JsonObject([k \in {"id"} |-> "j1"])>>)}

StatusCodes == {200, 400, 404}

\* requests.Response: what the blocking transport returns.
Response(status_code, json) == [kind |-> "Response", status_code |-> status_code, json |-> json]

Replies == {Response(c, b) : c \in StatusCodes, b \in Bodies}

\* The fields a response type requires of a body.
RequiredFields(t) == IF t = "ImageGenerateAsyncResponse" THEN {"id"} ELSE {"done"}

\* The classes an instance of response type t is an instance of.
Supertypes(t) ==
    IF t = "ImageGenerateStatusResponse"
    THEN {"ImageGenerateStatusResponse", "ImageGenerateCheckResponse"}
    ELSE {t}

\* Mutant of isinstance: the type test always succeeds.
isinstance_Always(instance, t) == TRUE

isinstance(instance, t) == t \in Supertypes(instance.type)

Validates(t, json) == json.kind = "object" /\ RequiredFields(t) \subseteq DOMAIN json.obj

\* BaseResponse.from_dict_or_array: the parsed instance of t, or a
\* ValidationError. A one-element array wrapping the object parses as the object.
from_dict_or_array(t, json) ==
    LET obj == IF json.kind = "array" /\ Len(json.arr) = 1 THEN json.arr[1] ELSE json
    IN IF Validates(t, obj)
       THEN [ok |-> TRUE, type |-> t, data |-> obj]
       ELSE [ok |-> FALSE, type |-> t, data |-> json]

\* What a call ends in: a success value, a RequestErrorResponse (both returned)
\* or an exception (raised).
NoJson == JsonArray(<<>>)

NoOutcome ==
    [kind |-> "none", type |-> "none", data |-> NoJson, message |-> "", raw_response |-> NoJson,
     exception |-> "none"]

Success(parsed) == [NoOutcome EXCEPT !.kind = "success", !.type = parsed.type, !.data = parsed.data]

RequestErrorResponse(message, raw, exc) ==
    [NoOutcome EXCEPT !.kind = "error", !.type = "RequestErrorResponse", !.message = message,
                      !.raw_response = raw, !.exception = exc]

Raise(exc) == [NoOutcome EXCEPT !.kind = "fatal", !.exception = exc]

\* The fixed message of both mismatch branches (its quote characters left out).
MismatchMessage ==
    "The response type does not match expected one! See object_data for the raw response."

\* Mutant of IsMessageOnly: the length test is left out.
IsMessageOnly_NoLength(json) == json.kind = "object" /\ "message" \in DOMAIN json.obj

\* len(raw_response_json) == 1 and "message" in raw_response_json
IsMessageOnly(json) ==
    IF json.kind = "object" THEN Cardinality(DOMAIN json.obj) = 1 /\ "message" \in DOMAIN json.obj
    ELSE /\ Len(json.arr) = 1
         /\ \E i \in 1..Len(json.arr) : json.arr[i] = JsonString("message")

\* Mutant of IsFailureCode: every code from 200 on counts as a failure.
IsFailureCode_From200(status_code) == status_code >= 200

\* raw_response.status_code >= 400
IsFailureCode(status_code) == status_code >= 400

\* _after_request_handling(api_request, raw_response, expected_response).
AfterRequestHandling(api_request, raw_response, expected_response) ==
    IF raw_response.kind # "Response" THEN Raise("AttributeError")
    ELSE LET expected_response_type == api_request.success_type
             raw_response_json == raw_response.json
         IN IF IsFailureCode(raw_response.status_code) THEN
                IF IsMessageOnly(raw_response_json) THEN
                    IF raw_response_json.kind = "object"
                    THEN RequestErrorResponse(raw_response_json.obj["message"], NoJson, "none")
                    ELSE Raise("TypeError")
                ELSE Raise("RuntimeError")
            ELSE LET parsed_response == from_dict_or_array(expected_response_type, raw_response_json)
                 IN IF parsed_response.ok THEN
                        IF isinstance(parsed_response, expected_response)
                        THEN Success(parsed_response)
                        ELSE RequestErrorResponse(MismatchMessage, raw_response_json, "none")
                    ELSE RequestErrorResponse(MismatchMessage, raw_response_json, "ValidationError")

\* ------------------------------------------------------ HordeRequestHandler

user_id == <<"u", "s", "e", "r", "_", "i", "d">>
name == <<"n", "a", "m", "e">>

\* model_fields of the three mappable base types.
GroupFields(base_type) ==
    CASE base_type = "BaseRequestAuthenticated" -> <<apikey>>
      [] base_type = "BaseRequestUserSpecific" -> <<user_id>>
      [] base_type = "BaseRequestWorkerDriven" -> <<name>>

mappable_base_types ==
    <<"BaseRequestAuthenticated", "BaseRequestUserSpecific", "BaseRequestWorkerDriven">>

\* The requests a HordeRequestHandler wraps: any of the group fields and a
\* payload field, recovery enabled or not, and the groups the class returned
\* by get_recovery_request_type() is a subclass of.
HandlerRequests ==
    {BaseRequest("POST", EP_async, [f \in D |-> [value |-> SomeValue, is_set |-> TRUE]], <<>>,
                 rec, rectype) :
        D \in SUBSET {apikey, user_id, name, prompt}, rec \in BOOLEAN, rectype \in SUBSET Groups}

RECURSIVE CopyGroupFields(_, _, _, _)
\* for key in base_type.model_fields: request_params[key] = getattr(self.request, key)
CopyGroupFields(request, keys, i, acc) ==
    IF i > Len(keys) THEN acc
    ELSE IF ~hasattr(request, keys[i]) THEN [acc EXCEPT !.raised = "AttributeError"]
    ELSE CopyGroupFields(request, keys, i + 1,
             [acc EXCEPT !.request_params = Put(@, keys[i], getattr(request, keys[i]))])

RECURSIVE MapRecoveryParams(_, _, _)
\* for base_type in mappable_base_types: if issubclass(recovery_request_type, base_type): ...
MapRecoveryParams(request, b, acc) ==
    IF b > Len(mappable_base_types) \/ acc.raised # "none" THEN acc
    ELSE IF mappable_base_types[b] \in request.recovery_type
    THEN MapRecoveryParams(request, b + 1,
             CopyGroupFields(request, GroupFields(mappable_base_types[b]), 1, acc))
    ELSE MapRecoveryParams(request, b + 1, acc)

\* __exit__(exc_type, exc_val, exc_tb): the request_params it has built when it
\* ends, and the exception it raised itself, if any.
Exit(request, exc_type) ==
    IF exc_type = "none" THEN [request_params |-> EmptyDict, raised |-> "none"]
    ELSE IF ~request.recovery_enabled THEN [request_params |-> EmptyDict, raised |-> "none"]
    ELSE MapRecoveryParams(request, 1, [request_params |-> EmptyDict, raised |-> "none"])

\* ------------------------------------------------------------------- state

VARIABLES
    client,           \* the GenericHordeAPIClient: its header, path and query registries
    pc,               \* where the caller is: idle, dispatch, awaiting, done, in_scope, exited
    api_request,      \* the request of the call in progress
    expected_response,\* the response type the caller expects
    mode,             \* "sync" (blocking) or "async" (non-blocking)
    verb,             \* the verb handler submit_request picked
    entry,            \* the entry point the caller used: submit_request or async_submit_request
    invoked,          \* the verb handler that ran, and the arguments it was given
    marshal,          \* whether _validate_and_prepare_request has returned or raised
    parsed_request,   \* the _ParsedRequest of the call, once marshalled
    http_calls,       \* the HTTP calls issued for this call, in order
    reply,            \* the reply of the remote to the HTTP call
    outcome,          \* what the call returned or raised
    handler           \* the HordeRequestHandler scope in progress

vars ==
    <<client, pc, api_request, expected_response, mode, verb, entry, invoked, marshal, parsed_request,
      http_calls, reply, outcome, handler>>

NoRequest == BaseRequest("GET", <<>>, EmptyDict, <<>>, FALSE, {})

NoReply == Response(0, NoJson)

\* The scope: the wrapped request, the exception the block left with, the
\* request_params and exception of __exit__, and the exception the caller sees.
NoHandler ==
    [request |-> NoRequest, exc_type |-> "none", request_params |-> EmptyDict,
     raised |-> "none", propagates |-> "none"]

\* No verb handler has run.
NotInvoked ==
    [verb |-> "none", mode |-> "none", api_request |-> NoRequest, expected_response |-> "none"]

\* api_client_method(api_request, expected_response): the handler that runs.
Invoke(v, m) ==
    invoked' = [verb |-> v, mode |-> m, api_request |-> api_request,
                expected_response |-> expected_response]

\* GenericHordeAPIClient(): the registries default to the generic ones.
GenericHordeAPIClient ==
    [header_data_keys |-> HeaderFields, path_data_keys |-> PathFields,
     query_data_keys |-> QueryFields]

Init ==
    /\ client = GenericHordeAPIClient
    /\ pc = "idle"
    /\ api_request = NoRequest
    /\ expected_response = "none"
    /\ mode = "none"
    /\ verb = "none"
    /\ entry = "none"
    /\ invoked = NotInvoked
    /\ marshal = "none"
    /\ parsed_request = NoParsedRequest
    /\ http_calls = <<>>
    /\ reply = NoReply
    /\ outcome = NoOutcome
    /\ handler = NoHandler

\* Mutant of Lower: PATCH is dispatched to the handler of PUT.
Lower_PatchAsPut(method) ==
    CASE method = "GET" -> "get"
      [] method = "POST" -> "post"
      [] method = "PUT" -> "put"
      [] method = "PATCH" -> "put"
      [] method = "DELETE" -> "delete"

\* .get_http_method()._value_.lower()
Lower(method) ==
    CASE method = "GET" -> "get"
      [] method = "POST" -> "post"
      [] method = "PUT" -> "put"
      [] method = "PATCH" -> "patch"
      [] method = "DELETE" -> "delete"

\* submit_request: pick the blocking handler of the verb of the request.
submit_request ==
    /\ pc = "idle"
    /\ \E r \in Requests, e \in ResponseTypes :
        /\ api_request' = r
        /\ expected_response' = e
        /\ verb' = Lower(r.method)
    /\ mode' = "sync"
    /\ entry' = "submit_request"
    /\ pc' = "dispatch"
    /\ UNCHANGED <<client, invoked, marshal, parsed_request, http_calls, reply, outcome, handler>>

\* async_submit_request: pick the non-blocking handler of the verb of the request.
async_submit_request ==
    /\ pc = "idle"
    /\ \E r \in Requests, e \in ResponseTypes :
        /\ api_request' = r
        /\ expected_response' = e
        /\ verb' = Lower(r.method)
    /\ mode' = "async"
    /\ entry' = "async_submit_request"
    /\ pc' = "dispatch"
    /\ UNCHANGED <<client, invoked, marshal, parsed_request, http_calls, reply, outcome, handler>>

\* The HTTP call a handler issues from its _ParsedRequest.
HttpCall(v, m, parsed, with_json) ==
    [verb |-> v, mode |-> m, url |-> parsed.endpoint_no_query, headers |-> parsed.request_headers,
     params |-> parsed.request_queries,
     json |-> IF with_json THEN parsed.request_body ELSE NoBody]

\* Mutant of GetHasBody: the body test is left out.
GetHasBody_Never(is_get, parsed) == FALSE

\* if parsed_request.request_body is not None (get and async_get only)
GetHasBody(is_get, parsed) == is_get /\ ~parsed.request_body.is_none

\* Mutant of Send: the extra header fields of the request are registered in the
\* header registry of the client.
Send_RegistersExtraHeaders(is_get) ==
    LET r == ValidateAndPrepareRequest(client, api_request)
    IN /\ client' = [client EXCEPT !.header_data_keys =
                          @ \o [i \in 1..Len(api_request.header_fields) |->
                                   <<api_request.header_fields[i],
                                     ApiName(api_request.header_fields[i])>>]]
       /\ IF ~r.ok
          THEN /\ marshal' = "raised"
               /\ outcome' = Raise(r.err)
               /\ pc' = "done"
               /\ UNCHANGED <<parsed_request, http_calls>>
          ELSE IF GetHasBody(is_get, r.parsed)
          THEN /\ marshal' = "returned"
               /\ parsed_request' = r.parsed
               /\ outcome' = Raise("RuntimeError")
               /\ pc' = "done"
               /\ UNCHANGED http_calls
          ELSE /\ marshal' = "returned"
               /\ parsed_request' = r.parsed
               /\ http_calls' = Append(http_calls, HttpCall(verb, mode, r.parsed, ~is_get))
               /\ pc' = "awaiting"
               /\ UNCHANGED outcome

\* A handler up to its HTTP call: marshal, refuse a GET with a body, send.
Send(is_get) ==
    LET r == ValidateAndPrepareRequest(client, api_request)
    IN /\ UNCHANGED client
       /\ IF ~r.ok
          THEN /\ marshal' = "raised"
               /\ outcome' = Raise(r.err)
               /\ pc' = "done"
               /\ UNCHANGED <<parsed_request, http_calls>>
          ELSE IF GetHasBody(is_get, r.parsed)
          THEN /\ marshal' = "returned"
               /\ parsed_request' = r.parsed
               /\ outcome' = Raise("RuntimeError")
               /\ pc' = "done"
               /\ UNCHANGED http_calls
          ELSE /\ marshal' = "returned"
               /\ parsed_request' = r.parsed
               /\ http_calls' = Append(http_calls, HttpCall(verb, mode, r.parsed, ~is_get))
               /\ pc' = "awaiting"
               /\ UNCHANGED outcome

get ==
    /\ pc = "dispatch" /\ verb = "get" /\ mode = "sync"
    /\ Invoke("get", "sync")
    /\ Send(TRUE)
    /\ UNCHANGED <<api_request, expected_response, mode, verb, entry, reply, handler>>

async_get ==
    /\ pc = "dispatch" /\ verb = "get" /\ mode = "async"
    /\ Invoke("get", "async")
    /\ Send(TRUE)
    /\ UNCHANGED <<api_request, expected_response, mode, verb, entry, reply, handler>>

post ==
    /\ pc = "dispatch" /\ verb = "post" /\ mode = "sync"
    /\ Invoke("post", "sync")
    /\ Send(FALSE)
    /\ UNCHANGED <<api_request, expected_response, mode, verb, entry, reply, handler>>

async_post ==
    /\ pc = "dispatch" /\ verb = "post" /\ mode = "async"
    /\ Invoke("post", "async")
    /\ Send(FALSE)
    /\ UNCHANGED <<api_request, expected_response, mode, verb, entry, reply, handler>>

put ==
    /\ pc = "dispatch" /\ verb = "put" /\ mode = "sync"
    /\ Invoke("put", "sync")
    /\ Send(FALSE)
    /\ UNCHANGED <<api_request, expected_response, mode, verb, entry, reply, handler>>

async_put ==
    /\ pc = "dispatch" /\ verb = "put" /\ mode = "async"
    /\ Invoke("put", "async")
    /\ Send(FALSE)
    /\ UNCHANGED <<api_request, expected_response, mode, verb, entry, reply, handler>>

patch ==
    /\ pc = "dispatch" /\ verb = "patch" /\ mode = "sync"
    /\ Invoke("patch", "sync")
    /\ Send(FALSE)
    /\ UNCHANGED <<api_request, expected_response, mode, verb, entry, reply, handler>>

async_patch ==
    /\ pc = "dispatch" /\ verb = "patch" /\ mode = "async"
    /\ Invoke("patch", "async")
    /\ Send(FALSE)
    /\ UNCHANGED <<api_request, expected_response, mode, verb, entry, reply, handler>>

delete ==
    /\ pc = "dispatch" /\ verb = "delete" /\ mode = "sync"
    /\ Invoke("delete", "sync")
    /\ Send(FALSE)
    /\ UNCHANGED <<api_request, expected_response, mode, verb, entry, reply, handler>>

async_delete ==
    /\ pc = "dispatch" /\ verb = "delete" /\ mode = "async"
    /\ Invoke("delete", "async")
    /\ Send(FALSE)
    /\ UNCHANGED <<api_request, expected_response, mode, verb, entry, reply, handler>>

\* The blocking handlers after the call: requests returns the Response, which
\* _after_request_handling resolves.
\* Mutant of after_request_handling: a reply with a failure status code is
\* answered by issuing the HTTP call once more.
after_request_handling_Retry ==
    /\ pc = "awaiting"
    /\ mode = "sync"
    /\ \E raw \in Replies :
        /\ reply' = raw
        /\ IF raw.status_code >= 400 /\ Len(http_calls) < 2
           THEN /\ http_calls' = Append(http_calls, http_calls[1])
                /\ pc' = "awaiting"
                /\ UNCHANGED outcome
           ELSE /\ outcome' = AfterRequestHandling(api_request, raw, expected_response)
                /\ pc' = "done"
                /\ UNCHANGED http_calls
    /\ UNCHANGED <<client, api_request, expected_response, mode, verb, entry, invoked, marshal,
                   parsed_request, handler>>

after_request_handling ==
    /\ pc = "awaiting"
    /\ mode = "sync"
    /\ \E raw \in Replies :
        /\ reply' = raw
        /\ outcome' = AfterRequestHandling(api_request, raw, expected_response)
    /\ pc' = "done"
    /\ UNCHANGED <<client, api_request, expected_response, mode, verb, entry, invoked, marshal,
                   parsed_request, http_calls, handler>>

\* The non-blocking handlers after the suspend point: raw_response is the
\* awaited response.json(), and that is what _after_request_handling is given.
async_after_request_handling ==
    /\ pc = "awaiting"
    /\ mode = "async"
    /\ \E raw \in Replies :
        /\ reply' = raw
        /\ outcome' = AfterRequestHandling(api_request, raw.json, expected_response)
    /\ pc' = "done"
    /\ UNCHANGED <<client, api_request, expected_response, mode, verb, entry, invoked, marshal,
                   parsed_request, http_calls, handler>>

\* with HordeRequestHandler(request) as r: __init__ and __enter__.
handler_enter ==
    /\ pc = "idle"
    /\ \E r \in HandlerRequests : handler' = [NoHandler EXCEPT !.request = r]
    /\ pc' = "in_scope"
    /\ UNCHANGED <<client, api_request, expected_response, mode, verb, entry, invoked, marshal,
                   parsed_request, http_calls, reply, outcome>>

\* The block ends, normally (exc_type None) or with an exception, and __exit__
\* runs. It returns None, so the exception of the block goes on to the caller,
\* unless __exit__ itself raises.
handler_exit ==
    /\ pc = "in_scope"
    /\ \E exc_type \in {"none", "RuntimeError"} :
        LET x == Exit(handler.request, exc_type)
        IN handler' = [handler EXCEPT
                          !.exc_type = exc_type,
                          !.request_params = x.request_params,
                          !.raised = x.raised,
                          !.propagates = IF x.raised # "none" THEN x.raised ELSE exc_type]
    /\ pc' = "exited"
    /\ UNCHANGED <<client, api_request, expected_response, mode, verb, entry, invoked, marshal,
                   parsed_request, http_calls, reply, outcome>>

\* The call is over; the caller goes on to its next call.
Return ==
    /\ pc \in {"done", "exited"}
    /\ pc' = "idle"
    /\ UNCHANGED client
    /\ api_request' = NoRequest
    /\ expected_response' = "none"
    /\ mode' = "none"
    /\ verb' = "none"
    /\ entry' = "none"
    /\ invoked' = NotInvoked
    /\ marshal' = "none"
    /\ parsed_request' = NoParsedRequest
    /\ http_calls' = <<>>
    /\ reply' = NoReply
    /\ outcome' = NoOutcome
    /\ handler' = NoHandler

Next ==
    \/ submit_request
    \/ async_submit_request
    \/ get
    \/ async_get
    \/ post
    \/ async_post
    \/ put
    \/ async_put
    \/ patch
    \/ async_patch
    \/ delete
    \/ async_delete
    \/ after_request_handling
    \/ async_after_request_handling
    \/ handler_enter
    \/ handler_exit
    \/ Return

Spec == Init /\ [][Next]_vars

\* ------------------------------------------------------------------ claims

\* The call is over and the remote replied to its HTTP call.
Replied == pc = "done" /\ reply # NoReply

\* The body is an object with exactly one key, and that key is message.
SingleMessageObject(json) == json.kind = "object" /\ DOMAIN json.obj = {"message"}

ParsesInto(t, json) == from_dict_or_array(t, json).ok

\* C2: a reply with status code < 400 whose body parses into the declared
\* success type, the caller expecting that type, makes submit_request return the
\* parsed instance of that type, and no Error Response and no exception.
C2_SuccessReturned ==
    (/\ Replied /\ mode = "sync" /\ reply.status_code < 400
     /\ ParsesInto(api_request.success_type, reply.json)
     /\ expected_response = api_request.success_type) =>
        /\ outcome.kind = "success"
        /\ outcome.type = expected_response
        /\ outcome.data = from_dict_or_array(api_request.success_type, reply.json).data
        /\ outcome.message = "" /\ outcome.exception = "none"

C2_Witness ==
    /\ Replied /\ mode = "sync" /\ reply.status_code = 200
    /\ api_request.success_type = "ImageGenerateAsyncResponse"
    /\ expected_response = "ImageGenerateAsyncResponse"
    /\ reply.json.kind = "object" /\ "id" \in DOMAIN reply.json.obj
    /\ outcome.kind = "success"

\* C3: a reply with status code < 400 whose body fails validation, or parses
\* into a value that is no instance of the expected type, resolves to a returned
\* Error Response with the fixed mismatch message and the raw body attached.
C3_MismatchReturned ==
    (/\ Replied /\ mode = "sync" /\ reply.status_code < 400
     /\ \/ ~ParsesInto(api_request.success_type, reply.json)
        \/ expected_response \notin Supertypes(api_request.success_type)) =>
        /\ outcome.kind = "error"
        /\ outcome.message = MismatchMessage
        /\ outcome.raw_response = reply.json

C3_Witness ==
    /\ Replied /\ mode = "sync" /\ reply.status_code = 200
    /\ ~ParsesInto(api_request.success_type, reply.json)
    /\ reply.json.kind = "object"
    /\ outcome.kind = "error" /\ outcome.exception = "ValidationError"
    /\ outcome.raw_response = reply.json

\* C4: the non-blocking variant of a verb yields the outcome the blocking
\* variant yields for the same request and the same reply.
C4_AsyncSameAsSync ==
    (Replied /\ mode = "async") =>
        outcome = AfterRequestHandling(api_request, reply, expected_response)

\* C5: when marshalling gives get or async_get a non-null body, the call ends in
\* a raised error and no HTTP call is issued.
C5_GetWithBodyIsFatal ==
    (verb = "get" /\ marshal = "returned" /\ ~parsed_request.request_body.is_none) =>
        /\ pc = "done"
        /\ outcome.kind = "fatal"
        /\ http_calls = <<>>
        /\ reply = NoReply

C5_Witness ==
    /\ verb = "get" /\ mode = "async" /\ marshal = "returned"
    /\ ~parsed_request.request_body.is_none
    /\ outcome.kind = "fatal" /\ http_calls = <<>>

\* sub occurs in s.
Contains(s, sub) ==
    \E i \in 1..Len(s) : i + Len(sub) - 1 <= Len(s) /\ SubSeq(s, i, i + Len(sub) - 1) = sub

Placeholder(wire) == <<"{">> \o wire \o <<"}">>

\* The path fields the request has a value for.
Populated(r, py) == py \in DOMAIN r.fields /\ r.fields[py] # None

\* The template of r has the placeholder of a path field r has no value for.
UnsuppliedPlaceholder(r) ==
    \E i \in 1..Len(PathFields) :
        Contains(r.endpoint, Placeholder(PathFields[i][2])) /\ ~Populated(r, PathFields[i][1])

\* The template of r has the placeholder of a path field that is None on r.
NullPlaceholder(r) ==
    \E i \in 1..Len(PathFields) :
        /\ Contains(r.endpoint, Placeholder(PathFields[i][2]))
        /\ PathFields[i][1] \in DOMAIN r.fields
        /\ r.fields[PathFields[i][1]] = None

\* C6: marshalling a request whose template has a placeholder for which the
\* path field of the request is null raises, before any HTTP call, and returns
\* no Parsed Request.
C6_MissingPathValueFails ==
    (marshal # "none" /\ NullPlaceholder(api_request)) =>
        marshal = "raised" /\ http_calls = <<>>

RECURSIVE ReplaceAll(_, _, _, _)
\* The template s of r from position i on, with the {wire-name} of every
\* populated path field replaced by the value of that field.
ReplaceAll(s, i, r, out) ==
    IF i > Len(s) THEN out
    ELSE LET j == IF s[i] = "{" THEN CloseIdx(s, i) ELSE 0
             ms == {m \in 1..Len(PathFields) :
                       /\ j > 0
                       /\ SubSeq(s, i + 1, j - 1) = PathFields[m][2]
                       /\ Populated(r, PathFields[m][1])}
         IN IF ms # {}
            THEN ReplaceAll(s, j + 1, r, out \o r.fields[PathFields[CHOOSE m \in ms : TRUE][1]])
            ELSE ReplaceAll(s, i + 1, r, Append(out, s[i]))

\* C7: with a path field populated, the endpoint of a returned Parsed Request
\* is the template with every {wire-name} of a path field replaced by the value
\* of the field, and no placeholder of the template is left.
C7_NoPlaceholderRemains ==
    (marshal = "returned" /\ \E i \in 1..Len(PathFields) : Populated(api_request, PathFields[i][1])) =>
        /\ parsed_request.endpoint_no_query = ReplaceAll(api_request.endpoint, 1, api_request, <<>>)
        /\ ~UnsuppliedPlaceholder(api_request)

\* The fields some registry claims, or the request declares as extra headers.
Claimed(r) ==
    Keys(HeaderFields) \cup Keys(PathFields) \cup Keys(QueryFields)
        \cup {r.header_fields[i] : i \in 1..Len(r.header_fields)}

\* The non-null, explicitly set fields of r that nothing claims.
Unclaimed(r) ==
    {f \in DOMAIN r.fields : r.fields[f] # None /\ f \in r.fields_set /\ f \notin Claimed(r)}

\* C8: the body of the Parsed Request is the map of the non-null, explicitly
\* set fields that no registry claims and that are no extra header fields, and
\* it is null, never an empty map, exactly when that map is empty.
C8_BodyIsUnclaimedSetFields ==
    marshal = "returned" =>
        /\ DOMAIN parsed_request.request_body.dict = Unclaimed(api_request)
        /\ \A f \in Unclaimed(api_request) :
               parsed_request.request_body.dict[f] = api_request.fields[f]
        /\ parsed_request.request_body.is_none <=> Unclaimed(api_request) = {}

C8_Witness ==
    /\ marshal = "returned"
    /\ api_request.method = "POST" /\ api_request.endpoint = EP_async
    /\ api_request.fields_set = {apikey, prompt, models}
    /\ ~parsed_request.request_body.is_none
    /\ DOMAIN parsed_request.request_body.dict = {prompt, models}
    /\ DOMAIN parsed_request.request_headers = {apikey}
    /\ parsed_request.endpoint_no_query = EP_async

\* C9, as stated: marshalling a GET request never yields a non-null body.
C9_GetBodyAlwaysNull ==
    (marshal = "returned" /\ api_request.method = "GET") =>
        parsed_request.request_body.is_none

\* C9, amended: marshalling a GET request all of whose non-null, explicitly set
\* fields are claimed by a registry or declared extra header fields never
\* yields a non-null body.
C9_GetBodyNullWhenAllClaimed ==
    (marshal = "returned" /\ api_request.method = "GET" /\ Unclaimed(api_request) = {}) =>
        parsed_request.request_body.is_none

C9_Witness ==
    /\ marshal = "returned" /\ api_request.method = "GET"
    /\ api_request.fields_set = {apikey, id_, type}
    /\ parsed_request.request_body.is_none
    /\ pc = "awaiting"

\* The group fields the recovery type of r has and r has too.
MappableFields(r) ==
    {k \in DOMAIN r.fields :
        \E g \in r.recovery_type : \E i \in 1..Len(GroupFields(g)) : GroupFields(g)[i] = k}

\* C10: on a failure exit with recovery enabled, the recovery parameters are
\* exactly the fields of the groups of the recovery type that the request has,
\* with the values of the request; a field the request lacks is not copied, and
\* no HTTP call is issued.
C10_RecoveryParamsBuilt ==
    (pc = "exited" /\ handler.exc_type # "none" /\ handler.request.recovery_enabled) =>
        /\ handler.raised = "none"
        /\ handler.request_params =
               [k \in MappableFields(handler.request) |-> handler.request.fields[k]]
        /\ http_calls = <<>>

\* C11: the scope never suppresses or replaces the failure of the block: on
\* normal completion exit does nothing, and on a failure exit, recovery disabled
\* or enabled, the exception the caller sees is the exception of the block.
C11_OriginalErrorPropagates ==
    (pc = "exited") =>
        /\ handler.propagates = handler.exc_type
        /\ (handler.exc_type = "none") =>
               (handler.request_params = EmptyDict /\ handler.raised = "none")

\* The verb handler named after each HTTP method.
HandlerOfMethod ==
    [GET |-> "get", POST |-> "post", PUT |-> "put", PATCH |-> "patch", DELETE |-> "delete"]

\* C12: for a request of any of the five methods, submit_request runs exactly
\* the blocking handler of that verb and async_submit_request exactly the
\* non-blocking handler of that verb, with the request and the expected type of
\* the caller; the HTTP call and the outcome of the call are those of that
\* handler.
C12_DispatchByVerb ==
    (invoked # NotInvoked) =>
        /\ entry \in {"submit_request", "async_submit_request"}
        /\ invoked.verb = HandlerOfMethod[api_request.method]
        /\ invoked.mode = (IF entry = "submit_request" THEN "sync" ELSE "async")
        /\ invoked.api_request = api_request
        /\ invoked.expected_response = expected_response
        /\ \A i \in 1..Len(http_calls) :
               http_calls[i].verb = invoked.verb /\ http_calls[i].mode = invoked.mode

C12_Witness ==
    /\ pc = "done" /\ reply # NoReply
    /\ entry = "async_submit_request" /\ api_request.method = "PATCH"
    /\ invoked.verb = "patch" /\ invoked.mode = "async"
    /\ Len(http_calls) = 1 /\ http_calls[1].verb = "patch"

\* Where a dispatch stands: nothing sent before marshalling has returned, at
\* most one HTTP call, built from the marshalled request, and a reply only to
\* that call.
DispatchInOrder ==
    /\ Len(http_calls) <= 1
    /\ (marshal = "none") => (http_calls = <<>> /\ reply = NoReply)
    /\ (marshal = "raised") => (pc = "done" /\ http_calls = <<>> /\ reply = NoReply)
    /\ (http_calls # <<>>) =>
           /\ marshal = "returned"
           /\ http_calls[1].url = parsed_request.endpoint_no_query
           /\ http_calls[1].headers = parsed_request.request_headers
           /\ http_calls[1].params = parsed_request.request_queries
    /\ (reply # NoReply) => (pc = "done" /\ Len(http_calls) = 1)

\* One step of a dispatch: the HTTP call is issued in the step in which
\* marshalling returns, and the reply is resolved once, with no further call.
DispatchStep ==
    /\ (http_calls' # http_calls /\ http_calls' # <<>>) =>
           (pc = "dispatch" /\ marshal = "none" /\ marshal' = "returned" /\ http_calls = <<>>)
    /\ (marshal' = "raised") => (http_calls' = <<>> /\ pc' = "done")
    /\ (reply' # reply /\ reply' # NoReply) =>
           (pc = "awaiting" /\ reply = NoReply /\ pc' = "done" /\ http_calls' = http_calls)

\* C13: every dispatch, of any verb, blocking or not, goes marshal, then at
\* most one HTTP call, then one resolution of the reply: the HTTP call is issued
\* only once marshalling has succeeded, none is issued when marshalling fails,
\* and no second HTTP call is ever issued, whatever the reply.
C13_MarshalCallResolve == []DispatchInOrder /\ [][DispatchStep]_vars

C13_Witness ==
    /\ pc = "done" /\ marshal = "returned" /\ Len(http_calls) = 1
    /\ reply.status_code = 404 /\ outcome.kind = "error"

C13_WitnessMarshalFails ==
    /\ pc = "done" /\ marshal = "raised" /\ http_calls = <<>> /\ outcome.kind = "fatal"

ClaimedBy(registry, r, f) == f \in Keys(registry) /\ r.fields[f] # None

\* The class of field f of r, by the precedence of the classification.
ClassOf(r, f) ==
    IF ClaimedBy(PathFields, r, f) THEN "path"
    ELSE IF ClaimedBy(HeaderFields, r, f) THEN "header"
    ELSE IF \E i \in 1..Len(r.header_fields) : r.header_fields[i] = f THEN "extra_header"
    ELSE IF ClaimedBy(QueryFields, r, f) THEN "query"
    ELSE "params"

\* Field f of r is in bucket d, with the value it has in r.
InBucket(d, r, f) == f \in DOMAIN d /\ d[f] = r.fields[f]

WireName(k) == IF k # <<>> /\ k[Len(k)] = "_" THEN SubSeq(k, 1, Len(k) - 1) ELSE k

\* C16: a field the request class declares as an extra header field is in the
\* headers map of the HTTP call under its wire name, the internal name without
\* the trailing underscore, and not under the suffixed internal name.
C16_ExtraHeaderUnderWireName ==
    \A i \in 1..Len(http_calls) :
        \A k \in DOMAIN api_request.fields :
            (ClassOf(api_request, k) = "extra_header") =>
                /\ WireName(k) \in DOMAIN http_calls[i].headers
                /\ http_calls[i].headers[WireName(k)] = api_request.fields[k]
                /\ (WireName(k) # k) => (k \notin DOMAIN http_calls[i].headers)

====
